---------------------------- MODULE Spec2Model ----------------------------
(***************************************************************************)
(* Model of src/Remite_mouse/server.py (RemoteMouseServer): the UDP        *)
(* discovery responder, the per-connection handshake and message loop,     *)
(* the connection registry, and the hotkey press/release logic.            *)
(*                                                                         *)
(* The specifications share the module's variables:                        *)
(*   Spec           session handlers (handle_client) of Conns connections  *)
(*   SpecFair       the handshake of those handlers, fairly scheduled      *)
(*   SpecCap        the registry with max_connections + 1 clients          *)
(*   SpecBoot       run(): discovery thread, listener and one connection   *)
(*   SpecHotkey     press_hotkey applied to bounded key lists              *)
(*   SpecNormalize  normalize_hotkey_for_os applied to bounded key lists   *)
(*   SpecDisc       the discovery_server thread and its datagrams          *)
(*   SpecDiscFair   that thread, fairly scheduled, until it stops          *)
(***************************************************************************)
EXTENDS Integers, Sequences, FiniteSets, TLC

VARIABLES
    os_type,             \* self.os_type: platform.system().lower()
    server_running,      \* self.server_running
    active_connections,  \* self.active_connections (the registry)
    pc,                  \* pc[c]: where handle_client(c) is suspended
    conn,                \* conn[c]: transport state of websocket c
    sent,                \* sent[c]: frames the server wrote to c, in order
    first,               \* first[c]: outcome of the awaited hello recv()
    adds,                \* adds[c]: number of active_connections.add(c) calls
    nrecv,               \* frames the message loops have received so far
    calls,               \* what the step just taken dispatched: the frame, the
                         \* connection it came from and the injection calls
                         \* made for it (NoCalls: the step dispatched nothing)
    hk_in,               \* SpecHotkey: [keys, failAt] handed to press_hotkey
    hk_pc,               \* SpecHotkey: "call" before, "done" after press_hotkey
    dpc,                 \* SpecDisc: position of the discovery_server thread
    dgram,               \* SpecDisc: datagram most recently received, its
                         \* sender, and whether sendto to that sender works
    dreplies,            \* SpecDisc: replies sent for that datagram
    discards,            \* discards[c]: number of active_connections.discard(c)
                         \* calls
    lpc,                 \* position of run(): "init" before it is called,
                         \* "bind" before websockets.serve has returned,
                         \* "serving" while it awaits wait_closed, "stopped"
                         \* after its finally clause
    hk_out               \* SpecNormalize: what normalize_hotkey_for_os returned

vars == << os_type, server_running, active_connections, pc, conn, sent, first,
           adds, nrecv, calls, hk_in, hk_pc, dpc, dgram, dreplies, discards,
           lpc, hk_out >>

(***************************************************************************)
(* Bounds of the model.                                                    *)
(***************************************************************************)
MaxKeys == 3        \* longest hotkey list drawn in SpecHotkey
MaxFrames == 2      \* frames the message loops receive in a run
MaxDatagramLen == 3 \* longest datagram, in tokens, drawn in SpecDisc

Reverse(s) == [i \in 1..Len(s) |-> s[Len(s) + 1 - i]]

(***************************************************************************)
(* Hotkeys.  A key list is a JSON array; its items are key-name strings    *)
(* or, since the client chooses the JSON, a value that is no string.       *)
(***************************************************************************)
NonStr == "<json number>"   \* stands for a list item that is not a str

KeyNames == {"ctrl", "cmd", "alt", "c", "CTRL", "Cmd", "F5"}

KeyItems == KeyNames \cup {NonStr}

IsStr(k) == k # NonStr

\* str.lower() on the key names of the model
lower(k) ==
    CASE k = "CTRL" -> "ctrl"
      [] k = "Cmd"  -> "cmd"
      [] k = "F5"   -> "f5"
      [] OTHER      -> k

\* self.key_mapping.get(k, k): the entries of the table the model's names hit
key_mapping_get(k) ==
    CASE k = "ctrl" -> "Key.ctrl"
      [] k = "alt"  -> "Key.alt"
      [] k = "cmd"  -> IF os_type = "darwin" THEN "Key.cmd" ELSE "Key.ctrl"
      [] k = "f5"   -> "Key.f5"
      [] OTHER      -> k

\* the loop body with its else branches appending key, not key_lower
normalize_key_verbatim(key) ==
    LET key_lower == lower(key) IN
    IF os_type = "darwin"
    THEN CASE key_lower = "ctrl" -> "cmd"
           [] key_lower = "cmd"  -> "cmd"
           [] key_lower = "alt"  -> "alt"
           [] OTHER              -> key
    ELSE CASE key_lower = "cmd"  -> "ctrl"
           [] key_lower = "ctrl" -> "ctrl"
           [] key_lower = "alt"  -> "alt"
           [] OTHER              -> key

\* one iteration of the loop of normalize_hotkey_for_os
normalize_key(key) ==
    LET key_lower == lower(key) IN
    IF os_type = "darwin"
    THEN CASE key_lower = "ctrl" -> "cmd"
           [] key_lower = "cmd"  -> "cmd"
           [] key_lower = "alt"  -> "alt"
           [] OTHER              -> key_lower
    ELSE CASE key_lower = "cmd"  -> "ctrl"
           [] key_lower = "ctrl" -> "ctrl"
           [] key_lower = "alt"  -> "alt"
           [] OTHER              -> key_lower

\* normalize_hotkey_for_os building its result with insert(0, ...) instead of
\* append
normalize_hotkey_for_os_reversed(keys) ==
    IF \E i \in 1..Len(keys) : ~IsStr(keys[i])
    THEN [exc |-> "AttributeError", val |-> << >>]
    ELSE [exc |-> "none",
          val |-> Reverse([i \in 1..Len(keys) |-> normalize_key(keys[i])])]

\* normalize_hotkey_for_os(keys): key.lower() raises AttributeError on an item
\* that is no str, before anything is returned
normalize_hotkey_for_os(keys) ==
    IF \E i \in 1..Len(keys) : ~IsStr(keys[i])
    THEN [exc |-> "AttributeError", val |-> << >>]
    ELSE [exc |-> "none", val |-> [i \in 1..Len(keys) |-> normalize_key(keys[i])]]

Call(fn, args) == [fn |-> fn, args |-> args]

\* the calls press_hotkey makes on self.keyboard when none of them raises
HotkeyPlan(key_sequence) ==
    [i \in 1..Len(key_sequence) |-> Call("keyboard.press", << key_sequence[i] >>)]
    \o [i \in 1..Len(key_sequence) |->
            Call("keyboard.release", << Reverse(key_sequence)[i] >>)]

\* press_hotkey(keys) where the failAt-th keyboard call raises (0: none does).
\* The result is the sequence of calls that completed; every exception is
\* caught and logged by the function itself, which then returns normally.
press_hotkey(keys, failAt) ==
    IF Len(keys) = 0 THEN << >>
    ELSE LET normalized_keys == normalize_hotkey_for_os(keys) IN
         IF normalized_keys.exc # "none" THEN << >>
         ELSE LET key_sequence ==
                      [i \in 1..Len(keys) |->
                          key_mapping_get(lower(normalized_keys.val[i]))]
                  plan == HotkeyPlan(key_sequence)
              IN  IF failAt = 0 \/ failAt > Len(plan)
                  THEN plan
                  ELSE SubSeq(plan, 1, failAt - 1)


(***************************************************************************)
(* JSON values and frames.  A frame is what websocket.recv() returns; its  *)
(* syntax decides what json.loads does with it.                            *)
(***************************************************************************)
JStr(s)  == [ty |-> "str",  v |-> s]
JNum(n)  == [ty |-> "num",  v |-> n]
JBool(b) == [ty |-> "bool", v |-> b]
JList(l) == [ty |-> "list", v |-> l]
JNone    == [ty |-> "null", v |-> "None"]

Garbage   == [syntax |-> "garbage", value |-> JNone]  \* text that is no JSON
Binary    == [syntax |-> "binary",  value |-> JNone]  \* bytes that are no UTF-8
ArrayJSON == [syntax |-> "json", value |-> JList(<< >>)]  \* valid JSON, no object
Obj(fields) == [syntax |-> "json", value |-> [ty |-> "dict", v |-> fields]]

\* json.loads(raw)
json_loads(raw) ==
    CASE raw.syntax = "garbage" -> [exc |-> "JSONDecodeError", val |-> JNone]
      [] raw.syntax = "binary"  -> [exc |-> "UnicodeDecodeError", val |-> JNone]
      [] OTHER                  -> [exc |-> "none", val |-> raw.value]

\* dict.get(k, default)
Get(d, k, default) == IF k \in DOMAIN d.v THEN d.v[k] ELSE default

\* float(x) and int(x).  The strings of the model are not numerals.
to_number(x) ==
    CASE x.ty = "num"  -> [exc |-> "none", val |-> x.v]
      [] x.ty = "bool" -> [exc |-> "none", val |-> IF x.v THEN 1 ELSE 0]
      [] x.ty = "str"  -> [exc |-> "ValueError", val |-> 0]
      [] OTHER         -> [exc |-> "TypeError", val |-> 0]

PIN == "123456"                  \* CONFIG["pin"]
server_name == "RemoteMouse Pro" \* CONFIG["server_name"]
ws_port == 8765                  \* CONFIG["ws_port"]
local_ip == "192.168.1.10"       \* self.local_ip, whatever get_local_ip found
capabilities == << "mouse", "keyboard", "hotkeys", "scroll" >>

HelloGood   == Obj([t |-> JStr("hello"), pin |-> JStr(PIN)])
HelloWrong  == Obj([t |-> JStr("hello"), pin |-> JStr("000000")])
HelloNumPin == Obj([t |-> JStr("hello"), pin |-> JNum(123456)])
HelloNoPin  == Obj([t |-> JStr("hello")])
NoTag       == Obj([pin |-> JStr(PIN)])
MoveMsg     == Obj([t |-> JStr("move"), dx |-> JNum(10), dy |-> JNum(0)])
MoveBad     == Obj([t |-> JStr("move"), dx |-> JStr("abc")])
ClickMsg    == Obj([t |-> JStr("click")])
ClickDown   == Obj([t |-> JStr("click"), btn |-> JStr("right"), down |-> JBool(TRUE)])
ClickUp     == Obj([t |-> JStr("click"), btn |-> JStr("right"), down |-> JBool(FALSE)])
ScrollMsg   == Obj([t |-> JStr("scroll"), dy |-> JNum(3)])
ScrollBad   == Obj([t |-> JStr("scroll"), dx |-> JNone])
KeyMsg      == Obj([t |-> JStr("key"), text |-> JStr("a")])
KeyEmpty    == Obj([t |-> JStr("key"), text |-> JStr("")])
HotkeyMsg(keys) == Obj([t |-> JStr("hotkey"), keys |-> JList(keys)])
HotkeyNone  == Obj([t |-> JStr("hotkey")])
PingMsg     == Obj([t |-> JStr("ping")])
UnknownMsg  == Obj([t |-> JStr("foo")])

HotkeyFrames ==
    {HotkeyMsg(<< >>), HotkeyMsg(<<"ctrl", "c">>), HotkeyMsg(<<"ctrl", NonStr>>)}

\* what a peer may send first, while the handler awaits the hello
FirstFrames ==
    {Garbage, Binary, ArrayJSON, HelloGood, HelloWrong, HelloNumPin, HelloNoPin,
     NoTag, PingMsg, MoveMsg}

\* what a peer may send to the message loop
Frames ==
    {Garbage, Binary, ArrayJSON, HelloGood, HelloWrong, NoTag, MoveMsg, MoveBad,
     ClickMsg, ClickDown, ClickUp, ScrollMsg, ScrollBad, KeyMsg, KeyEmpty,
     HotkeyNone, PingMsg, UnknownMsg} \cup HotkeyFrames

\* frames the server writes
ErrorFrame(msg) == [t |-> "error", msg |-> msg]
OkFrame == [t |-> "ok", server |-> server_name, capabilities |-> capabilities]
PongFrame == [t |-> "pong"]

(***************************************************************************)
(* authenticate_client.  ev is the outcome of                              *)
(* asyncio.wait_for(websocket.recv(), timeout=5): a frame, the timeout, or *)
(* ConnectionClosed.  The result is the value returned and the error frame *)
(* the function tries to send before it closes the connection.             *)
(***************************************************************************)
RecvFrame(f) == [kind |-> "frame", raw |-> f]
RecvTimeout  == [kind |-> "timeout", raw |-> Garbage]
RecvClosed   == [kind |-> "closed", raw |-> Garbage]
NoRecv       == [kind |-> "none", raw |-> Garbage]

Verdict(ok, reply) == [ok |-> ok, reply |-> reply]

\* authenticate_client without the comparison of the pin
authenticate_client_anypin(ev) ==
    CASE ev.kind = "timeout" ->
             Verdict(FALSE, << ErrorFrame("Authentication timeout") >>)
      [] ev.kind = "closed" -> Verdict(FALSE, << >>)
      [] OTHER ->
         LET hello_data == json_loads(ev.raw) IN
         CASE hello_data.exc = "JSONDecodeError" ->
                  Verdict(FALSE, << ErrorFrame("Invalid JSON format") >>)
           [] hello_data.exc = "UnicodeDecodeError" -> Verdict(FALSE, << >>)
           [] hello_data.val.ty # "dict" -> Verdict(FALSE, << >>)
           [] OTHER ->
              IF Get(hello_data.val, "t", JNone) # JStr("hello")
              THEN Verdict(FALSE,
                     << ErrorFrame("Invalid message type, expected 'hello'") >>)
              ELSE Verdict(TRUE, << >>)

authenticate_client(ev) ==
    CASE ev.kind = "timeout" ->
             Verdict(FALSE, << ErrorFrame("Authentication timeout") >>)
      [] ev.kind = "closed" -> Verdict(FALSE, << >>)
      [] OTHER ->
         LET hello_data == json_loads(ev.raw) IN
         CASE hello_data.exc = "JSONDecodeError" ->
                  Verdict(FALSE, << ErrorFrame("Invalid JSON format") >>)
           [] hello_data.exc = "UnicodeDecodeError" -> Verdict(FALSE, << >>)
           [] hello_data.val.ty # "dict" -> Verdict(FALSE, << >>)
           [] OTHER ->
              IF Get(hello_data.val, "t", JNone) # JStr("hello")
              THEN Verdict(FALSE,
                     << ErrorFrame("Invalid message type, expected 'hello'") >>)
              ELSE IF Get(hello_data.val, "pin", JNone) # JStr(PIN)
              THEN Verdict(FALSE, << ErrorFrame("Invalid PIN") >>)
              ELSE Verdict(TRUE, << >>)

(***************************************************************************)
(* process_message.  failAt = 1 makes the first injection call raise (for  *)
(* a hotkey: the failAt-th keyboard call); 0 lets every call succeed.      *)
(* The result: the injection calls that completed, the frame the function  *)
(* sends, and whether it raised.                                           *)
(***************************************************************************)
Outcome(c, reply, raised) == [calls |-> c, reply |-> reply, raised |-> raised]

Raised == Outcome(<< >>, << >>, TRUE)

\* one call on self.mouse or self.keyboard
Inject(call, failAt) ==
    IF failAt = 1 THEN Raised ELSE Outcome(<< call >>, << >>, FALSE)

Button(btn) == IF btn = JStr("right") THEN "Button.right"
               ELSE IF btn = JStr("middle") THEN "Button.middle"
               ELSE "Button.left"

\* the branches of process_message on message_type; move's arguments are
\* dx * 1.5 and dy * 1.5, written in halves (3 * dx is 2 * 1.5 * dx)
dispatch(message, failAt) ==
    LET message_type == Get(message, "t", JNone) IN
    CASE message_type = JStr("move") ->
             LET dx == to_number(Get(message, "dx", JNum(0)))
                 dy == to_number(Get(message, "dy", JNum(0)))
             IN  IF dx.exc # "none" \/ dy.exc # "none" THEN Raised
                 ELSE Inject(Call("mouse.move", << 3 * dx.val, 3 * dy.val >>), failAt)
      [] message_type = JStr("click") ->
             LET button == Button(Get(message, "btn", JStr("left")))
                 down == Get(message, "down", JNone)
             IN  IF down = JBool(TRUE)
                 THEN Inject(Call("mouse.press", << button >>), failAt)
                 ELSE IF down = JBool(FALSE)
                 THEN Inject(Call("mouse.release", << button >>), failAt)
                 ELSE Inject(Call("mouse.click", << button, 1 >>), failAt)
      [] message_type = JStr("scroll") ->
             LET dx == to_number(Get(message, "dx", JNum(0)))
                 dy == to_number(Get(message, "dy", JNum(0)))
             IN  IF dx.exc # "none" \/ dy.exc # "none" THEN Raised
                 ELSE Inject(Call("mouse.scroll", << dx.val, dy.val >>), failAt)
      [] message_type = JStr("key") ->
             LET text == Get(message, "text", JStr("")) IN
             IF text = JStr("") THEN Outcome(<< >>, << >>, FALSE)
             ELSE Inject(Call("keyboard.type", << text.v >>), failAt)
      [] message_type = JStr("hotkey") ->
             LET keys == Get(message, "keys", JList(<< >>)) IN
             Outcome(press_hotkey(keys.v, failAt), << >>, FALSE)
      [] message_type = JStr("ping") -> Outcome(<< >>, << PongFrame >>, FALSE)
      [] OTHER -> Outcome(<< >>, << >>, FALSE)

\* process_message answering a hello frame as the handshake does
process_message_rehello(raw_message, failAt) ==
    LET message == json_loads(raw_message) IN
    IF message.exc # "none" THEN Raised
    ELSE IF message.val.ty # "dict" THEN Raised
    ELSE IF Get(message.val, "t", JNone) = JStr("hello")
    THEN IF Get(message.val, "pin", JNone) = JStr(PIN)
         THEN Outcome(<< >>, << OkFrame >>, FALSE)
         ELSE Outcome(<< >>, << ErrorFrame("Invalid PIN") >>, FALSE)
    ELSE dispatch(message.val, failAt)

\* process_message swallowing the exception of json.loads
process_message_lenient(raw_message, failAt) ==
    LET message == json_loads(raw_message) IN
    IF message.exc # "none" THEN Outcome(<< >>, << >>, FALSE)
    ELSE IF message.val.ty # "dict" THEN Raised
    ELSE dispatch(message.val, failAt)

\* process_message without the ping branch
process_message_noping(raw_message, failAt) ==
    LET message == json_loads(raw_message) IN
    IF message.exc # "none" THEN Raised
    ELSE IF message.val.ty # "dict" THEN Raised
    ELSE IF Get(message.val, "t", JNone) = JStr("ping")
    THEN Outcome(<< >>, << >>, FALSE)
    ELSE dispatch(message.val, failAt)

\* process_message raising on a message type it does not know
process_message_strict(raw_message, failAt) ==
    LET message == json_loads(raw_message) IN
    IF message.exc # "none" THEN Raised
    ELSE IF message.val.ty # "dict" THEN Raised
    ELSE IF Get(message.val, "t", JNone) \notin
              {JStr("move"), JStr("click"), JStr("scroll"), JStr("key"),
               JStr("hotkey"), JStr("ping")}
    THEN Raised
    ELSE dispatch(message.val, failAt)

\* process_message(websocket, raw_message): json.loads, message.get('t') and
\* the branch of the message type
process_message(raw_message, failAt) ==
    LET message == json_loads(raw_message) IN
    IF message.exc # "none" THEN Raised
    ELSE IF message.val.ty # "dict" THEN Raised
    ELSE dispatch(message.val, failAt)

\* how many injection calls a frame can make: the range failAt is drawn from
MaxCalls(raw_message) == Len(process_message(raw_message, 0).calls)

(***************************************************************************)
(* Session handlers.  One handle_client coroutine per connection; a step   *)
(* is what the coroutine does between two points where it awaits the       *)
(* transport.  pc[c]:                                                      *)
(*   "idle"    not accepted yet                                            *)
(*   "auth"    in authenticate_client, awaiting the hello recv()           *)
(*   "reject"  authentication failed, awaiting websocket.close()           *)
(*   "ack"     registered, awaiting the send of the ok frame               *)
(*   "loop"    in the message loop, awaiting the next frame                *)
(*   "done"    the finally clause has run and the handler has returned     *)
(***************************************************************************)
\* Two connections: handlers share nothing but active_connections, so two of
\* them show every way one handler's steps fall between another's.
Conns == {"c1", "c2"}

Calls(c, raw_message, seq) == [by |-> c, msg |-> raw_message, seq |-> seq]

NoCalls == Calls("none", Garbage, << >>)

SessInit ==
    /\ server_running = TRUE
    /\ active_connections = {}
    /\ pc = [c \in Conns |-> "idle"]
    /\ conn = [c \in Conns |-> "none"]
    /\ sent = [c \in Conns |-> << >>]
    /\ first = [c \in Conns |-> NoRecv]
    /\ adds = [c \in Conns |-> 0]
    /\ discards = [c \in Conns |-> 0]
    /\ lpc = "serving"
    /\ nrecv = 0
    /\ calls = NoCalls

NoResult == [exc |-> "none", val |-> << >>]

HotkeyIdle ==
    /\ hk_in = [keys |-> << >>, failAt |-> 0]
    /\ hk_pc = "idle"
    /\ hk_out = NoResult

NoDatagram == [data |-> << >>, addr |-> "none", sendOk |-> FALSE]

DiscIdle == dpc = "idle" /\ dgram = NoDatagram /\ dreplies = << >>

Platform == os_type \in {"darwin", "linux"}

Init == Platform /\ SessInit /\ HotkeyIdle /\ DiscIdle

otherVars == << os_type, server_running, hk_in, hk_pc, dpc, dgram, dreplies,
               lpc, hk_out >>

\* websocket.send(frame): the frame is written, or ConnectionClosed is raised
CanSend(c) == conn[c] = "open"

\* handle_client without the discard of its finally clause
Finally_keep(c) ==
    /\ active_connections' = active_connections
    /\ discards' = discards
    /\ pc' = [pc EXCEPT ![c] = "done"]
    /\ conn' = [conn EXCEPT ![c] = "closed"]

\* a finally clause that empties the registry: active_connections.clear()
Finally_clear(c) ==
    /\ active_connections' = {}
    /\ discards' = [discards EXCEPT ![c] = @ + 1]
    /\ pc' = [pc EXCEPT ![c] = "done"]
    /\ conn' = [conn EXCEPT ![c] = "closed"]

\* the finally clause of handle_client, and the return of the handler, after
\* which the library closes the connection
Finally(c) ==
    /\ active_connections' = active_connections \ {c}
    /\ discards' = [discards EXCEPT ![c] = @ + 1]
    /\ pc' = [pc EXCEPT ![c] = "done"]
    /\ conn' = [conn EXCEPT ![c] = "closed"]

\* websockets.serve accepts a connection and starts handle_client for it
Accept(c) ==
    /\ lpc = "serving"
    /\ pc[c] = "idle"
    /\ pc' = [pc EXCEPT ![c] = "auth"]
    /\ conn' = [conn EXCEPT ![c] = "open"]
    /\ calls' = NoCalls
    /\ UNCHANGED << active_connections, sent, first, adds, discards, nrecv,
                    otherVars >>

\* the peer closes the connection, or the transport fails
PeerClose(c) ==
    /\ conn[c] = "open"
    /\ conn' = [conn EXCEPT ![c] = "closed"]
    /\ calls' = NoCalls
    /\ UNCHANGED << active_connections, pc, sent, first, adds, discards, nrecv,
                    otherVars >>

\* a hello recv() without wait_for: no timeout
HelloEvents_notimeout(c) ==
    {RecvFrame(f) : f \in FirstFrames}
    \cup (IF conn[c] = "open" THEN {} ELSE {RecvClosed})

\* what the hello recv() can yield: a frame the peer sent (also one it sent
\* before closing), the timeout while the connection is open, or
\* ConnectionClosed once it is closed
HelloEvents(c) ==
    {RecvFrame(f) : f \in FirstFrames}
    \cup (IF conn[c] = "open" THEN {RecvTimeout} ELSE {RecvClosed})

\* handle_client not looking at what authenticate_client returned
Authenticate_unchecked(c) ==
    /\ pc[c] = "auth"
    /\ \E ev \in HelloEvents(c) :
         LET v == authenticate_client(ev) IN
         /\ first' = [first EXCEPT ![c] = ev]
         /\ active_connections' = active_connections \cup {c}
         /\ adds' = [adds EXCEPT ![c] = @ + 1]
         /\ pc' = [pc EXCEPT ![c] = "ack"]
         /\ sent' = [sent EXCEPT ![c] = IF CanSend(c) THEN @ \o v.reply ELSE @]
    /\ calls' = NoCalls
    /\ UNCHANGED << conn, discards, nrecv, otherVars >>

\* handle_client up to its next await, from the hello recv(): the call of
\* authenticate_client with the error frame it sends on a failure, and
\* active_connections.add on a success
Authenticate(c) ==
    /\ pc[c] = "auth"
    /\ \E ev \in HelloEvents(c) :
         LET v == authenticate_client(ev) IN
         /\ first' = [first EXCEPT ![c] = ev]
         /\ IF v.ok
            THEN /\ active_connections' = active_connections \cup {c}
                 /\ adds' = [adds EXCEPT ![c] = @ + 1]
                 /\ pc' = [pc EXCEPT ![c] = "ack"]
                 /\ sent' = sent
            ELSE /\ sent' = [sent EXCEPT ![c] =
                                IF CanSend(c) THEN @ \o v.reply ELSE @]
                 /\ pc' = [pc EXCEPT ![c] = "reject"]
                 /\ UNCHANGED << active_connections, adds >>
    /\ calls' = NoCalls
    /\ UNCHANGED << conn, discards, nrecv, otherVars >>

\* websocket.close() in authenticate_client, its return False, and the return
\* of handle_client through the finally clause
Reject(c) ==
    /\ pc[c] = "reject"
    /\ Finally(c)
    /\ calls' = NoCalls
    /\ UNCHANGED << sent, first, adds, nrecv, otherVars >>

\* handle_client entering its loop without the ok send
SendOk_silent(c) ==
    /\ pc[c] = "ack"
    /\ IF CanSend(c)
       THEN /\ sent' = sent
            /\ pc' = [pc EXCEPT ![c] = "loop"]
            /\ UNCHANGED << active_connections, conn, discards >>
       ELSE /\ Finally(c)
            /\ sent' = sent
    /\ calls' = NoCalls
    /\ UNCHANGED << first, adds, nrecv, otherVars >>

\* the send of the ok frame; ConnectionClosed ends the handler
SendOk(c) ==
    /\ pc[c] = "ack"
    /\ IF CanSend(c)
       THEN /\ sent' = [sent EXCEPT ![c] = Append(@, OkFrame)]
            /\ pc' = [pc EXCEPT ![c] = "loop"]
            /\ UNCHANGED << active_connections, conn, discards >>
       ELSE /\ Finally(c)
            /\ sent' = sent
    /\ calls' = NoCalls
    /\ UNCHANGED << first, adds, nrecv, otherVars >>

\* one iteration of "async for raw_message in websocket": process_message,
\* and the error frame of the except clause around it.  A send on a closed
\* connection raises ConnectionClosed, which ends the handler.
ReceiveFrame(c, raw_message, failAt) ==
    /\ pc[c] = "loop"
    /\ nrecv < MaxFrames
    /\ LET r == process_message(raw_message, failAt)
           out == IF r.raised
                  THEN << ErrorFrame("Invalid message format") >>
                  ELSE r.reply
       IN  /\ nrecv' = nrecv + 1
           /\ calls' = Calls(c, raw_message, r.calls)
           /\ IF out = << >> \/ CanSend(c)
              THEN /\ sent' = [sent EXCEPT ![c] = @ \o out]
                   /\ UNCHANGED << active_connections, pc, conn, discards >>
              ELSE /\ Finally(c)
                   /\ sent' = sent
    /\ UNCHANGED << first, adds, otherVars >>

\* the peer's next frame is any of Frames; any one injection call may raise
Receive(c) ==
    \E raw_message \in Frames :
        \E failAt \in 0..MaxCalls(raw_message) :
            ReceiveFrame(c, raw_message, failAt)

\* the loop finds the connection closed: the iteration ends or raises
\* ConnectionClosed, and the handler returns through finally
Disconnected(c) ==
    /\ pc[c] = "loop"
    /\ conn[c] = "closed"
    /\ Finally(c)
    /\ calls' = NoCalls
    /\ UNCHANGED << sent, first, adds, nrecv, otherVars >>

\* a cancellation that ends the handler task without running its finally
\* clause
Cancel_abrupt(c) ==
    /\ pc[c] \in {"auth", "reject", "ack", "loop"}
    /\ pc' = [pc EXCEPT ![c] = "done"]
    /\ conn' = [conn EXCEPT ![c] = "closed"]
    /\ calls' = NoCalls
    /\ UNCHANGED << active_connections, discards, sent, first, adds, nrecv,
                    otherVars >>

\* the handler task is cancelled at the await it is suspended in (asyncio.run
\* cancels the tasks still running when run() has ended): CancelledError is
\* caught by no except clause of the handler, and the finally clause runs
Cancel(c) ==
    /\ pc[c] \in {"auth", "reject", "ack", "loop"}
    /\ Finally(c)
    /\ calls' = NoCalls
    /\ UNCHANGED << sent, first, adds, nrecv, otherVars >>

Next ==
    \E c \in Conns :
        \/ Accept(c)
        \/ PeerClose(c)
        \/ Authenticate(c)
        \/ Reject(c)
        \/ SendOk(c)
        \/ Receive(c)
        \/ Disconnected(c)
        \/ Cancel(c)

Spec == Init /\ [][Next]_vars

\* The handlers from accept to their entry into the message loop and to
\* their end, without the frames of the loop.
NextHandshake ==
    \E c \in Conns :
        \/ Accept(c)
        \/ PeerClose(c)
        \/ Authenticate(c)
        \/ Reject(c)
        \/ SendOk(c)
        \/ Disconnected(c)
        \/ Cancel(c)

\* the hello wait ends without a frame: wait_for raises TimeoutError after
\* its 5 seconds, or recv() raises ConnectionClosed
HelloExpiry(c) ==
    /\ Authenticate(c)
    /\ first'[c] \in {RecvTimeout, RecvClosed}

\* The event loop keeps running the handlers: a hello wait in which no frame
\* comes ends by the timeout or the close, and the close() after a failed
\* handshake returns.  Nothing is assumed of the peer.
SessFairness == \A c \in Conns : WF_vars(HelloExpiry(c)) /\ WF_vars(Reject(c))

SpecFair == Init /\ [][NextHandshake]_vars /\ SessFairness

(***************************************************************************)
(* The registry against CONFIG['max_connections']: one more client than    *)
(* the configured maximum, each connecting once the one before it has      *)
(* finished its handshake, sending a hello with the right or a wrong PIN   *)
(* and then staying connected.  The handlers are those of Spec.            *)
(***************************************************************************)
max_connections == 10

CapConns == 1..(max_connections + 1)

InitCap ==
    /\ Platform
    /\ HotkeyIdle
    /\ DiscIdle
    /\ server_running = TRUE
    /\ lpc = "serving"
    /\ active_connections = {}
    /\ pc = [c \in CapConns |-> "idle"]
    /\ conn = [c \in CapConns |-> "none"]
    /\ sent = [c \in CapConns |-> << >>]
    /\ first = [c \in CapConns |-> NoRecv]
    /\ adds = [c \in CapConns |-> 0]
    /\ discards = [c \in CapConns |-> 0]
    /\ nrecv = 0
    /\ calls = NoCalls

\* the next client connects
CapAccept(c) ==
    /\ \A d \in CapConns : d < c => pc[d] \in {"loop", "done"}
    /\ Accept(c)

\* the handshake of a client that sends a hello right away
CapAuthenticate(c) ==
    /\ Authenticate(c)
    /\ first'[c] \in {RecvFrame(HelloGood), RecvFrame(HelloWrong)}

NextCap ==
    \E c \in CapConns :
        \/ CapAccept(c)
        \/ CapAuthenticate(c)
        \/ Reject(c)
        \/ SendOk(c)

SpecCap == InitCap /\ [][NextCap]_vars

(***************************************************************************)
(* press_hotkey on its own: every key list of at most MaxKeys items, on    *)
(* either platform, with any one keyboard call failing or none.            *)
(***************************************************************************)
RECURSIVE SeqsUpTo(_, _)
SeqsUpTo(S, n) ==
    IF n = 0 THEN {<< >>}
    ELSE LET shorter == SeqsUpTo(S, n - 1) IN
         shorter \cup {Append(s, x) : s \in {t \in shorter : Len(t) = n - 1}, x \in S}

KeyLists == SeqsUpTo(KeyItems, MaxKeys)

InitHotkey ==
    /\ Platform
    /\ SessInit
    /\ DiscIdle
    /\ hk_pc = "call"
    /\ hk_out = NoResult
    /\ hk_in \in {[keys |-> ks, failAt |-> f] : ks \in KeyLists, f \in 0..(2 * MaxKeys)}
    /\ hk_in.failAt <= 2 * Len(hk_in.keys)

\* self.press_hotkey(keys), as process_message calls it for a hotkey frame
PressHotkey ==
    /\ hk_pc = "call"
    /\ calls' = Calls("none", HotkeyMsg(hk_in.keys),
                      press_hotkey(hk_in.keys, hk_in.failAt))
    /\ hk_pc' = "done"
    /\ UNCHANGED << os_type, server_running, active_connections, pc, conn, sent,
                    first, adds, nrecv, hk_in, dpc, dgram, dreplies, discards,
                    lpc, hk_out >>

NextHotkey == PressHotkey

SpecHotkey == InitHotkey /\ [][NextHotkey]_vars

(***************************************************************************)
(* normalize_hotkey_for_os on its own: every key list of at most MaxKeys   *)
(* items, on either platform.                                              *)
(***************************************************************************)
InitNormalize ==
    /\ Platform
    /\ SessInit
    /\ DiscIdle
    /\ hk_pc = "call"
    /\ hk_in \in {[keys |-> ks, failAt |-> 0] : ks \in KeyLists}
    /\ hk_out = NoResult

\* normalized_keys = self.normalize_hotkey_for_os(keys)
NormalizeHotkey ==
    /\ hk_pc = "call"
    /\ hk_out' = normalize_hotkey_for_os(hk_in.keys)
    /\ hk_pc' = "done"
    /\ UNCHANGED << os_type, server_running, active_connections, pc, conn, sent,
                    first, adds, nrecv, calls, hk_in, dpc, dgram, dreplies,
                    discards, lpc >>

NextNormalize == NormalizeHotkey

SpecNormalize == InitNormalize /\ [][NextNormalize]_vars

(***************************************************************************)
(* Discovery responder: the thread running discovery_server.  A datagram   *)
(* is a sequence of tokens: the two halves of the discovery text, a        *)
(* whitespace character, and a byte that is no UTF-8.                      *)
(* dpc: "start" before bind, "check" at the while condition, "recv" in     *)
(* recvfrom, "stopped" after the finally clause.                           *)
(***************************************************************************)
BadByte == "<0xff>"

Whitespace == {" "}

Tokens == {"remotemouse:", "discover", BadByte} \cup Whitespace

Sentinel == << "remotemouse:", "discover" >>   \* "remotemouse:discover"

Datagrams == SeqsUpTo(Tokens, MaxDatagramLen)

Senders == {"10.0.0.2", "10.0.0.3"}

\* bytes.decode('utf-8', errors='ignore')
decode(data) == SelectSeq(data, LAMBDA b : b # BadByte)

RECURSIVE lstrip(_)
lstrip(s) == IF s # << >> /\ Head(s) \in Whitespace THEN lstrip(Tail(s)) ELSE s

\* a comparison of the decoded text as it is, without strip()
strip_none(s) == s

\* str.strip()
strip(s) == Reverse(lstrip(Reverse(lstrip(s))))

\* the response payload of discovery_server
response ==
    [name |-> server_name, ip |-> local_ip, port |-> ws_port,
     pin_required |-> TRUE, version |-> "2.0", capabilities |-> capabilities]

InitDisc ==
    /\ Platform
    /\ SessInit
    /\ HotkeyIdle
    /\ dpc = "start"
    /\ dgram = NoDatagram
    /\ dreplies = << >>

sessVars == << os_type, active_connections, pc, conn, sent, first, adds, nrecv,
               calls, hk_in, hk_pc, discards, hk_out >>

\* a discovery thread whose failure to bind ends run() as well
DiscBind_fatal ==
    /\ dpc = "start"
    /\ \E bound \in BOOLEAN :
         IF bound
         THEN dpc' = "check" /\ UNCHANGED << server_running, lpc >>
         ELSE dpc' = "stopped" /\ server_running' = FALSE /\ lpc' = "stopped"
    /\ UNCHANGED << dgram, dreplies, sessVars >>

\* socket(), setsockopt, settimeout and bind: on an exception the thread logs
\* and ends through its finally clause
DiscBind ==
    /\ dpc = "start"
    /\ \E bound \in BOOLEAN : dpc' = IF bound THEN "check" ELSE "stopped"
    /\ UNCHANGED << server_running, lpc, dgram, dreplies, sessVars >>

\* a loop that does not read the flag: "while True"
DiscCheck_forever ==
    /\ dpc = "check"
    /\ dpc' = "recv"
    /\ UNCHANGED << server_running, lpc, dgram, dreplies, sessVars >>

\* "while self.server_running"
DiscCheck ==
    /\ dpc = "check"
    /\ dpc' = IF server_running THEN "recv" ELSE "stopped"
    /\ UNCHANGED << server_running, lpc, dgram, dreplies, sessVars >>

\* what one received datagram makes the loop body send; sendto may raise,
\* which is caught and logged
discovery_replies(data, addr, sendOk) ==
    LET message == strip(decode(data)) IN
    IF message = Sentinel /\ sendOk
    THEN << [to |-> addr, payload |-> response] >>
    ELSE << >>

\* one iteration of the loop body in which recvfrom returns (data, addr)
DiscReceive(data, addr, sendOk) ==
    /\ dpc = "recv"
    /\ dgram' = [data |-> data, addr |-> addr, sendOk |-> sendOk]
    /\ dreplies' = discovery_replies(data, addr, sendOk)
    /\ dpc' = "check"
    /\ UNCHANGED << server_running, lpc, sessVars >>

\* recvfrom returns a datagram
DiscDatagram ==
    \E data \in Datagrams, addr \in Senders, sendOk \in BOOLEAN :
        DiscReceive(data, addr, sendOk)

\* recvfrom raises socket.timeout: continue
DiscTimeout ==
    /\ dpc = "recv"
    /\ dpc' = "check"
    /\ UNCHANGED << server_running, lpc, dgram, dreplies, sessVars >>

\* recvfrom raises another exception: log, sleep, next iteration
DiscRecvError ==
    /\ dpc = "recv"
    /\ dpc' = "check"
    /\ UNCHANGED << server_running, lpc, dgram, dreplies, sessVars >>

\* the finally clause of run(): self.server_running = False
Shutdown ==
    /\ server_running
    /\ server_running' = FALSE
    /\ lpc' = "stopped"
    /\ UNCHANGED << dpc, dgram, dreplies, sessVars >>

NextDisc ==
    \/ DiscBind
    \/ DiscCheck
    \/ DiscDatagram
    \/ DiscTimeout
    \/ DiscRecvError
    \/ Shutdown

SpecDisc == InitDisc /\ [][NextDisc]_vars

\* The thread under fair scheduling, with datagrams that take each path of
\* the loop body: the discovery text bare and padded, and a text that is not
\* it; sendto works or raises.
SomeDatagrams == {Sentinel, << " " >> \o Sentinel, << "discover" >>}

DiscDatagramSome ==
    \E data \in SomeDatagrams, addr \in Senders, sendOk \in BOOLEAN :
        DiscReceive(data, addr, sendOk)

NextDiscFair ==
    \/ DiscBind
    \/ DiscCheck
    \/ DiscDatagramSome
    \/ DiscTimeout
    \/ DiscRecvError
    \/ Shutdown

\* The thread keeps running: bind returns or raises, the while condition is
\* evaluated, and recvfrom returns a datagram or raises within the timeout
\* set by settimeout.
DiscFairness ==
    /\ WF_vars(DiscBind)
    /\ WF_vars(DiscCheck)
    /\ WF_vars(DiscDatagramSome \/ DiscTimeout \/ DiscRecvError)

SpecDiscFair == InitDisc /\ [][NextDiscFair]_vars /\ DiscFairness

(***************************************************************************)
(* run(): the start of the discovery thread and of the session listener,   *)
(* with the handler of one connection, from the state __init__ leaves.     *)
(* The thread meets receive timeouts and errors only.                      *)
(***************************************************************************)
BootConns == {"c1"}

InitBoot ==
    /\ Platform
    /\ HotkeyIdle
    /\ server_running = FALSE
    /\ lpc = "init"
    /\ dpc = "idle"
    /\ dgram = NoDatagram
    /\ dreplies = << >>
    /\ active_connections = {}
    /\ pc = [c \in Conns |-> "idle"]
    /\ conn = [c \in Conns |-> "none"]
    /\ sent = [c \in Conns |-> << >>]
    /\ first = [c \in Conns |-> NoRecv]
    /\ adds = [c \in Conns |-> 0]
    /\ discards = [c \in Conns |-> 0]
    /\ nrecv = 0
    /\ calls = NoCalls

\* run(): self.server_running = True, and discovery_thread.start()
RunStart ==
    /\ lpc = "init"
    /\ server_running' = TRUE
    /\ dpc' = "start"
    /\ lpc' = "bind"
    /\ UNCHANGED << dgram, dreplies, sessVars >>

\* await self.start_websocket_server(): websockets.serve binds the session
\* port and returns, or raises, which run() logs before its finally clause
StartListener ==
    /\ lpc = "bind"
    /\ \E bound \in BOOLEAN :
         IF bound
         THEN lpc' = "serving" /\ server_running' = server_running
         ELSE lpc' = "stopped" /\ server_running' = FALSE
    /\ UNCHANGED << dpc, dgram, dreplies, sessVars >>

NextBoot ==
    \/ RunStart
    \/ StartListener
    \/ Shutdown
    \/ DiscBind
    \/ DiscCheck
    \/ DiscTimeout
    \/ DiscRecvError
    \/ \E c \in BootConns :
          \/ Accept(c)
          \/ PeerClose(c)
          \/ Authenticate(c)
          \/ Reject(c)
          \/ SendOk(c)
          \/ Receive(c)
          \/ Disconnected(c)
          \/ Cancel(c)

SpecBoot == InitBoot /\ [][NextBoot]_vars

(***************************************************************************)
(* Properties.                                                             *)
(***************************************************************************)
Range(s) == {s[i] : i \in 1..Len(s)}

\* the outcome of the hello recv() is a JSON object with t = "hello" and pin
\* equal to the configured PIN
ValidHello(ev) ==
    /\ ev.kind = "frame"
    /\ ev.raw.syntax = "json"
    /\ ev.raw.value.ty = "dict"
    /\ "t" \in DOMAIN ev.raw.value.v
    /\ ev.raw.value.v["t"] = JStr("hello")
    /\ "pin" \in DOMAIN ev.raw.value.v
    /\ ev.raw.value.v["pin"] = JStr(PIN)

\* C1: nothing is injected, no pong (and no ok) is sent and nothing is
\* registered for a connection unless the first frame it sent was a JSON
\* object with t = "hello" and pin equal to the configured PIN; a connection
\* is authenticated at most once.
C1_AuthGate ==
    \A c \in Conns :
        /\ adds[c] <= 1
        /\ (\/ (calls.by = c /\ calls.seq # << >>)
            \/ PongFrame \in Range(sent[c])
            \/ OkFrame \in Range(sent[c])
            \/ c \in active_connections
            \/ adds[c] > 0
            \/ pc[c] \in {"ack", "loop"})
           => ValidHello(first[c])

C1_Witness ==
    /\ calls.by = "c1" /\ calls.seq # << >>
    /\ sent["c1"] = << OkFrame, PongFrame >>
    /\ first["c2"] = RecvFrame(HelloWrong) /\ pc["c2"] = "done"

\* C2 as stated: every member of the registry is a connection that is open
\* and has passed authentication.
C2_MembersOpen ==
    \A c \in active_connections : conn[c] = "open" /\ ValidHello(first[c])

\* C2 amended: the members of the registry are exactly the connections that
\* have passed authentication and whose handler has not terminated; a
\* connection the peer has closed is still a member until its handler's next
\* step finds it closed.
C2_RegistryMembers ==
    \A c \in Conns :
        /\ c \in active_connections <=> (adds[c] = 1 /\ pc[c] \in {"ack", "loop"})
        /\ c \in active_connections => ValidHello(first[c])
        /\ pc[c] = "done" => c \notin active_connections

C2_Witness ==
    /\ "c1" \in active_connections /\ conn["c1"] = "closed" /\ pc["c1"] = "loop"
    /\ pc["c2"] = "done" /\ adds["c2"] = 1 /\ "c2" \notin active_connections

\* the reason C3 expects in the error frame of a failed handshake
HandshakeReason(ev) ==
    IF ev.kind = "timeout" THEN "Authentication timeout"
    ELSE IF ev.raw.syntax # "json" THEN "Invalid JSON format"
    ELSE IF ~ (/\ ev.raw.value.ty = "dict"
               /\ "t" \in DOMAIN ev.raw.value.v
               /\ ev.raw.value.v["t"] = JStr("hello"))
    THEN "Invalid message type, expected 'hello'"
    ELSE "Invalid PIN"

\* C3: a connection whose handshake failed on the timeout, on a first frame
\* that is not parseable JSON, on a tag that is not "hello" (JSON without a
\* usable tag included) or on the PIN has been sent exactly one error frame,
\* naming that failure, when the handler is about to close it.  (The
\* connection is open: the frame could be written.)
C3_OneErrorFrame ==
    \A c \in Conns :
        (pc[c] = "reject" /\ conn[c] = "open" /\ first[c].kind \in {"frame", "timeout"})
        => sent[c] = << ErrorFrame(HandshakeReason(first[c])) >>

\* the first frame is a hello whose pin is not the configured PIN
WrongPinHello(ev) ==
    /\ ev.kind = "frame"
    /\ ev.raw.syntax = "json"
    /\ ev.raw.value.ty = "dict"
    /\ "t" \in DOMAIN ev.raw.value.v
    /\ ev.raw.value.v["t"] = JStr("hello")
    /\ ~ ("pin" \in DOMAIN ev.raw.value.v /\ ev.raw.value.v["pin"] = JStr(PIN))

\* C4: a connection whose hello wait timed out, or whose hello carried a
\* wrong PIN, is not in the registry and has never been added to it.
C4_NeverRegistered ==
    \A c \in Conns :
        (first[c] = RecvTimeout \/ WrongPinHello(first[c]))
        => (adds[c] = 0 /\ c \notin active_connections)

C4_Witness ==
    /\ first["c1"] = RecvTimeout /\ pc["c1"] = "done"
    /\ sent["c1"] = << ErrorFrame("Authentication timeout") >>
    /\ first["c2"] = RecvFrame(HelloWrong) /\ pc["c2"] = "done"
    /\ sent["c2"] = << ErrorFrame("Invalid PIN") >>

\* C5: an authenticated connection has been added to the registry exactly
\* once, and the dispatch of a later hello frame, with the right or a wrong
\* PIN, sends nothing, injects nothing, and leaves the registry, the count of
\* adds, the handshake outcome and the handler's place in the loop as they are.
C5_SecondHello ==
    /\ [](\A c \in Conns : adds[c] <= 1 /\ (c \in active_connections => adds[c] = 1))
    /\ [][\A c \in Conns : \A h \in {HelloGood, HelloWrong} :
            ReceiveFrame(c, h, 0)
            => /\ UNCHANGED << sent, active_connections, adds, first, pc, conn >>
               /\ pc'[c] = "loop"
               /\ calls'.seq = << >>]_vars

C5_Witness ==
    /\ calls.by = "c1" /\ calls.msg = HelloWrong
    /\ pc["c1"] = "loop" /\ conn["c1"] = "open"
    /\ "c1" \in active_connections /\ adds["c1"] = 1
    /\ sent["c1"] = << OkFrame >>

\* C6: after press_hotkey on a list of n keys, n keys have been pressed and
\* then n released, the released keys being the pressed keys in reverse.
C6_Balanced ==
    hk_pc = "done" =>
        LET n == Len(hk_in.keys)
            s == calls.seq
        IN  /\ Len(s) = 2 * n
            /\ \A i \in 1..n :
                 /\ s[i].fn = "keyboard.press"
                 /\ s[n + i].fn = "keyboard.release"
                 /\ s[n + i].args = s[n + 1 - i].args

\* C7: on an authenticated connection that is open, the dispatch of a frame
\* that is not parseable JSON writes exactly one "Invalid message format"
\* error frame, injects nothing, and leaves the handler in its loop, the
\* connection open and the registry as it is, so that the next frame is read.
C7_MalformedFrame ==
    [][\A c \in Conns : \A f \in {Garbage, Binary} :
         (CanSend(c) /\ ReceiveFrame(c, f, 0))
         => /\ sent'[c] = Append(sent[c], ErrorFrame("Invalid message format"))
            /\ calls'.seq = << >>
            /\ UNCHANGED << pc, conn, active_connections, adds >>
            /\ pc'[c] = "loop" /\ c \in active_connections']_vars

C7_Witness ==
    /\ calls.by = "c1" /\ calls.msg = Garbage
    /\ sent["c1"] = << OkFrame, ErrorFrame("Invalid message format") >>
    /\ pc["c1"] = "loop" /\ conn["c1"] = "open" /\ "c1" \in active_connections
    /\ nrecv < MaxFrames

\* the dispatch of frame f raises an exception when the failAt-th injection
\* call fails: bad field types, a failing injection call, a key that cannot
\* be normalized, a failing key press or release
DispatchRaises(f, failAt) ==
    \/ f \in {MoveBad, ScrollBad}
    \/ f \in {MoveMsg, ClickMsg, ClickDown, ClickUp, ScrollMsg, KeyMsg} /\ failAt = 1
    \/ f = HotkeyMsg(<<"ctrl", NonStr>>)
    \/ f = HotkeyMsg(<<"ctrl", "c">>) /\ failAt >= 1

\* C8: on an authenticated connection that is open, a frame whose dispatch
\* raises an exception is answered with an "Invalid message format" error
\* frame, and the handler stays in its loop with the connection registered.
C8_DispatchException ==
    [][\A c \in Conns : \A f \in Frames : \A failAt \in 0..MaxCalls(f) :
         (DispatchRaises(f, failAt) /\ CanSend(c) /\ ReceiveFrame(c, f, failAt))
         => /\ sent'[c] = Append(sent[c], ErrorFrame("Invalid message format"))
            /\ UNCHANGED << pc, conn, active_connections >>]_vars

\* C9: on an authenticated connection that is open, the dispatch of a ping
\* frame writes exactly one pong frame to that connection, injects nothing,
\* and changes neither the registry nor anything of another session.
C9_PingPong ==
    [][\A c \in Conns :
         (CanSend(c) /\ ReceiveFrame(c, PingMsg, 0))
         => /\ sent'[c] = Append(sent[c], PongFrame)
            /\ calls'.seq = << >>
            /\ UNCHANGED << active_connections, pc, conn, first, adds >>
            /\ \A d \in Conns \ {c} : sent'[d] = sent[d]]_vars

C9_Witness ==
    /\ calls.by = "c1" /\ calls.msg = PingMsg
    /\ sent["c1"] = << OkFrame, PongFrame >>
    /\ pc["c2"] = "loop" /\ sent["c2"] = << OkFrame >>
    /\ active_connections = {"c1", "c2"}

\* the reply C10 describes: to the sender, with the control port and the name
DiscoveryReply(addr) == [to |-> addr, payload |-> response]

\* C10 as stated: a datagram is answered, once, if it equals the discovery
\* text, and any other datagram is not answered.  (sendto works.)
C10_ExactMatch ==
    (dgram.addr # "none" /\ dgram.sendOk)
    => dreplies = IF dgram.data = Sentinel
                  THEN << DiscoveryReply(dgram.addr) >>
                  ELSE << >>

\* the datagram is the discovery text, possibly between whitespace and with
\* bytes that are no UTF-8 anywhere in it
PaddedSentinel(data) ==
    LET text == SelectSeq(data, LAMBDA b : b # BadByte) IN
    \E i \in 0..Len(text) :
        /\ i + Len(Sentinel) <= Len(text)
        /\ SubSeq(text, i + 1, i + Len(Sentinel)) = Sentinel
        /\ \A j \in (1..i) \cup ((i + Len(Sentinel) + 1)..Len(text)) :
               text[j] \in Whitespace

\* C10 amended: a datagram is answered, with one unicast reply to its sender
\* that carries the control port and the server name, if its text, decoded
\* with undecodable bytes dropped and stripped of surrounding whitespace, is
\* the discovery text and sendto does not fail; otherwise it is not answered.
C10_DiscoveryReply ==
    dgram.addr # "none"
    => /\ dreplies = IF PaddedSentinel(dgram.data) /\ dgram.sendOk
                     THEN << DiscoveryReply(dgram.addr) >>
                     ELSE << >>
       /\ \A i \in 1..Len(dreplies) :
            /\ dreplies[i].payload.port = ws_port
            /\ dreplies[i].payload.name = server_name

C10_Witness ==
    /\ dgram.data = << " ", "remotemouse:", "discover" >>
    /\ dgram.addr = "10.0.0.3"
    /\ dreplies = << DiscoveryReply("10.0.0.3") >>

\* the list is made of key-name strings only
AllStr(keys) == \A i \in 1..Len(keys) : IsStr(keys[i])

\* the policy table: the modifier rows of either platform, and the lower-cased
\* name for every other key
PolicyTable(platform, name) ==
    IF name \in {"ctrl", "cmd"}
    THEN (IF platform = "darwin" THEN "cmd" ELSE "ctrl")
    ELSE name

\* C11: for a list of key names, normalize_hotkey_for_os returns, position by
\* position, what the policy table gives for the platform and the lower-cased
\* key at that position: ctrl and cmd become cmd on macOS and ctrl elsewhere,
\* alt stays alt, every other name comes back lower-cased; nothing but the
\* platform and the input list enters the result.
C11_PolicyTable ==
    (hk_pc = "done" /\ AllStr(hk_in.keys)) =>
        /\ hk_out.exc = "none"
        /\ DOMAIN hk_out.val = DOMAIN hk_in.keys
        /\ \A i \in DOMAIN hk_in.keys :
              hk_out.val[i] = PolicyTable(os_type, lower(hk_in.keys[i]))

C11_Witness ==
    /\ hk_pc = "done"
    /\ os_type = "darwin"
    /\ hk_in.keys = << "CTRL", "alt", "F5" >>
    /\ hk_out.val = << "cmd", "alt", "f5" >>

\* C12: the registry never holds more than CONFIG['max_connections']
\* connections.
C12_RegistryCap == Cardinality(active_connections) <= max_connections

\* C13: a handler that has terminated, on whichever path, has called
\* active_connections.discard for its connection exactly once, a handler that
\* has not terminated has not called it, and the connection of a terminated
\* handler is not in the registry; when no handler is running the registry is
\* empty.
C13_Deregistered ==
    /\ \A c \in Conns :
          /\ discards[c] = (IF pc[c] = "done" THEN 1 ELSE 0)
          /\ pc[c] = "done" => c \notin active_connections
    /\ (\A c \in Conns : pc[c] \in {"idle", "done"}) => active_connections = {}

\* c1 ended after it was registered and had a frame dispatched, c2 was
\* cancelled while waiting for its hello
C13_Witness ==
    /\ pc["c1"] = "done" /\ adds["c1"] = 1 /\ discards["c1"] = 1
    /\ Len(sent["c1"]) = 2
    /\ pc["c2"] = "done" /\ first["c2"] = NoRecv /\ discards["c2"] = 1

connVars == << active_connections, pc, conn, sent, first, adds, discards, nrecv >>

\* the listener and the handlers can take their next step whatever the
\* discovery thread has done: each is enabled whenever its own position allows
ListenerUnimpeded ==
    /\ ENABLED StartListener <=> lpc = "bind"
    /\ \A c \in BootConns :
          /\ ENABLED Accept(c) <=> (lpc = "serving" /\ pc[c] = "idle")
          /\ ENABLED Authenticate(c) <=> pc[c] = "auth"
          /\ ENABLED Reject(c) <=> pc[c] = "reject"
          /\ ENABLED SendOk(c) <=> pc[c] = "ack"
          /\ ENABLED Receive(c) <=> (pc[c] = "loop" /\ nrecv < MaxFrames)

\* C14: a step of the discovery thread, its failed bind included, changes
\* nothing of the listener, the running flag, the registry or any handler, and
\* the listener's start and every handler step (accept, handshake, ok,
\* dispatch) is enabled by the listener's and the handler's own position alone,
\* the same with discovery stopped as with discovery running.
C14_BindFailureLocal ==
    /\ []ListenerUnimpeded
    /\ [][(dpc' # dpc /\ lpc # "init")
            => UNCHANGED << lpc, server_running, connVars >>]_vars

\* the bind of the discovery socket failed; the listener started, and a
\* connection made its handshake and had its ping answered
C14_Witness ==
    /\ dpc = "stopped" /\ server_running /\ lpc = "serving"
    /\ dgram = NoDatagram
    /\ sent["c1"] = << OkFrame, PongFrame >>
    /\ "c1" \in active_connections

OkCount(c) == Cardinality({i \in 1..Len(sent[c]) : sent[c][i] = OkFrame})

\* C16 as stated: at most one ok frame is sent, and a connection is in the
\* registry, or has a frame dispatched or answered, only after its ok frame
\* was sent.
C16_AckBeforeRegistered ==
    \A c \in Conns :
        /\ OkCount(c) <= 1
        /\ (\/ c \in active_connections
            \/ calls.by = c
            \/ PongFrame \in Range(sent[c]))
           => OkFrame \in Range(sent[c])

\* C16, amended: at most one ok frame is sent to a connection, and it is the
\* first frame written to it; it is written by a handler that has already
\* added the connection to the registry; a handler in its message loop has
\* sent it, so every dispatch and every reply of the loop comes after it.
C16_AckOrder ==
    /\ [](\A c \in Conns :
            /\ OkCount(c) <= 1
            /\ OkFrame \in Range(sent[c])
                 => (Head(sent[c]) = OkFrame /\ adds[c] = 1 /\ ValidHello(first[c]))
            /\ (pc[c] = "loop" \/ calls.by = c \/ PongFrame \in Range(sent[c]))
                 => OkCount(c) = 1)
    /\ [][\A c \in Conns :
            OkCount(c)' > OkCount(c)
                => (c \in active_connections /\ pc[c] = "ack" /\ pc'[c] = "loop")]_vars

\* c1 got its ok frame and then had a frame dispatched to the mouse
C16_Witness ==
    /\ pc["c1"] = "loop"
    /\ "c1" \in active_connections
    /\ sent["c1"] = << OkFrame >>
    /\ calls.by = "c1" /\ calls.seq # << >>

\* C17: a handler waiting for the hello does not wait for ever: its connection
\* becomes authenticated (registered, about to be acknowledged or in the
\* message loop) or its handler ends with the connection closed; and the
\* handshake takes one outcome of one recv(): once the hello wait has yielded
\* a frame, the timeout or a closed connection, that outcome stays.
C17_LeavesAuthenticating ==
    /\ \A c \in Conns :
          (pc[c] = "auth") ~> (pc[c] \in {"ack", "loop"} \/ pc[c] = "done")
    /\ [][\A c \in Conns :
            /\ first[c] # NoRecv => first'[c] = first[c]
            /\ first'[c] # first[c] => (pc[c] = "auth" /\ pc'[c] \in {"ack", "reject"})]_vars

\* one connection authenticated by its first frame, the other closed after
\* the hello timeout
C17_Witness ==
    /\ pc["c1"] = "loop" /\ first["c1"] = RecvFrame(HelloGood)
    /\ pc["c2"] = "done" /\ first["c2"] = RecvTimeout
    /\ sent["c2"] = << ErrorFrame("Authentication timeout") >>

\* the step leaves session d as it was: its registry membership, the position
\* of its handler, its transport, and what was received from and sent to it
SessionUnchanged(d) ==
    /\ (d \in active_connections') <=> (d \in active_connections)
    /\ pc'[d] = pc[d]
    /\ conn'[d] = conn[d]
    /\ first'[d] = first[d]
    /\ sent'[d] = sent[d]
    /\ adds'[d] = adds[d]
    /\ discards'[d] = discards[d]

\* C18: every step of the handlers, in any interleaving, belongs to one
\* session and leaves every other session's registry membership and protocol
\* state unchanged; and no add or discard is lost: the registry holds exactly
\* the connections that were added and not yet discarded.
C18_Isolation ==
    /\ [](active_connections = {c \in Conns : adds[c] = 1 /\ discards[c] = 0})
    /\ [][\E c \in Conns : \A d \in Conns \ {c} : SessionUnchanged(d)]_vars

\* c1 failed its handshake and was closed while c2 stays registered in its
\* message loop
C18_Witness ==
    /\ pc["c1"] = "done" /\ first["c1"] = RecvFrame(Garbage)
    /\ sent["c1"] = << ErrorFrame("Invalid JSON format") >>
    /\ "c2" \in active_connections /\ pc["c2"] = "loop" /\ conn["c2"] = "open"
    /\ sent["c2"] = << OkFrame >>

\* the frame is a JSON object that has no t field, or whose t is none of the
\* six message types
UntaggedOrUnknown(f) ==
    /\ f.syntax = "json"
    /\ f.value.ty = "dict"
    /\ \/ "t" \notin DOMAIN f.value.v
       \/ f.value.v["t"] \notin {JStr(t) : t \in {"move", "click", "scroll", "key",
                                                 "hotkey", "ping"}}

UnknownFrames == {f \in Frames : UntaggedOrUnknown(f)}

\* C19: a step of the message loop of connection c that dispatches a JSON
\* object without t, or with a t that is none of move, click, scroll, key,
\* hotkey, ping, writes no frame, makes no injection call, and leaves the
\* handler in its loop, the transport and the registry as they were, with the
\* connection still registered.
C19_UnknownIgnored ==
    [][\A c \in Conns :
         (pc[c] = "loop" /\ calls'.by = c /\ calls'.msg \in UnknownFrames)
         => /\ sent' = sent
            /\ calls'.seq = << >>
            /\ UNCHANGED << pc, conn, active_connections, adds, discards >>
            /\ pc'[c] = "loop" /\ c \in active_connections']_vars

C19_Witness ==
    /\ calls.by = "c1" /\ calls.msg = UnknownMsg /\ calls.seq = << >>
    /\ sent["c1"] = << OkFrame >>
    /\ pc["c1"] = "loop" /\ conn["c1"] = "open" /\ "c1" \in active_connections

\* C20: for a list of key names, normalize_hotkey_for_os returns a list of
\* the same length whose item at each position is what it returns for the
\* key at that position alone; normalizing the returned list gives the same
\* list again; and the returned list holds no "ctrl" on macOS and no "cmd" on
\* any other platform.
C20_NormalizeAlgebra ==
    (hk_pc = "done" /\ AllStr(hk_in.keys)) =>
        /\ hk_out.exc = "none"
        /\ Len(hk_out.val) = Len(hk_in.keys)
        /\ \A i \in 1..Len(hk_in.keys) :
              << hk_out.val[i] >> = normalize_hotkey_for_os(<< hk_in.keys[i] >>).val
        /\ normalize_hotkey_for_os(hk_out.val) = hk_out
        /\ (IF os_type = "darwin" THEN "ctrl" ELSE "cmd") \notin Range(hk_out.val)

\* a list with a repeated modifier in upper and lower case, on a platform that
\* is not macOS
C20_Witness ==
    /\ hk_pc = "done"
    /\ os_type = "linux"
    /\ hk_in.keys = << "Cmd", "c", "cmd" >>
    /\ hk_out.val = << "ctrl", "c", "ctrl" >>

=============================================================================
